---- MODULE Spec2Model ----
(***************************************************************************)
(* A model of l2j/scripts/download_and_replace_images.py: the pipeline     *)
(* that finds <img> references inside HTML strings of JSON documents,      *)
(* downloads every distinct image once, rewrites the references to local   *)
(* paths and writes a manifest per JSON file.                              *)
(*                                                                         *)
(* Strings are sequences of tokens ("https:", "//", "cdn", "/", "image",   *)
(* ".png", " ", ",", ...), so that prefix tests, concatenation, splitting  *)
(* and joining are computed as the code computes them.                     *)
(***************************************************************************)
EXTENDS Integers, Sequences, FiniteSets, TLC

\* ------------------------------------------------------------------------
\* Python values
\* ------------------------------------------------------------------------

\* Python's None where a string (or a path) is expected.
None == <<"<None>">>

\* Truthiness of an Optional[str]: neither None nor the empty string.
Truthy(s) == s # None /\ s # <<>>

\* str.startswith
StartsWith(s, p) == Len(s) >= Len(p) /\ SubSeq(s, 1, Len(p)) = p

\* str.endswith
EndsWith(s, p) == Len(s) >= Len(p) /\ SubSeq(s, Len(s) - Len(p) + 1, Len(s)) = p

\* dict.get on a dict modelled as a function
MapGet(m, k) == IF k \in DOMAIN m THEN m[k] ELSE None

IsWs(t) == t \in {" ", "\n"}

RECURSIVE SplitOn(_, _)
\* str.split(sep) for a one-token separator: the parts, empty ones included.
SplitOn(s, sep) ==
    IF \A i \in 1..Len(s) : s[i] # sep
    THEN <<s>>
    ELSE LET i == CHOOSE j \in 1..Len(s) :
                      s[j] = sep /\ \A k \in 1..(j - 1) : s[k] # sep
         IN  <<SubSeq(s, 1, i - 1)>> \o SplitOn(SubSeq(s, i + 1, Len(s)), sep)

RECURSIVE LStrip(_)
LStrip(s) == IF s # <<>> /\ IsWs(s[1]) THEN LStrip(Tail(s)) ELSE s

RECURSIVE RStrip(_)
RStrip(s) ==
    IF s # <<>> /\ IsWs(s[Len(s)]) THEN RStrip(SubSeq(s, 1, Len(s) - 1)) ELSE s

\* str.strip()
Strip(s) == RStrip(LStrip(s))

RECURSIVE SplitWs(_)
\* str.split() without argument: the maximal runs of non-blank tokens.
SplitWs(s) ==
    LET t == LStrip(s) IN
    IF t = <<>> THEN <<>>
    ELSE IF \A i \in 1..Len(t) : ~IsWs(t[i])
         THEN <<t>>
         ELSE LET i == CHOOSE j \in 1..Len(t) :
                           IsWs(t[j]) /\ \A k \in 1..(j - 1) : ~IsWs(t[k])
              IN  <<SubSeq(t, 1, i - 1)>> \o SplitWs(SubSeq(t, i + 1, Len(t)))

RECURSIVE Join(_, _)
\* sep.join(parts)
Join(parts, sep) ==
    IF parts = <<>> THEN <<>>
    ELSE IF Len(parts) = 1 THEN parts[1]
         ELSE parts[1] \o sep \o Join(Tail(parts), sep)

\* ------------------------------------------------------------------------
\* File names and URLs
\* ------------------------------------------------------------------------

\* The extensions pathlib sees as a suffix in the modelled names.
Exts == {".png", ".jpg", ".json"}

\* Path.suffix of a name
Suffix(name) ==
    IF Len(name) >= 2 /\ name[Len(name)] \in Exts THEN <<name[Len(name)]>> ELSE <<>>

\* Path.stem of a name
PathStem(name) == SubSeq(name, 1, Len(name) - Len(Suffix(name)))

RECURSIVE DropTrailingSlashes(_)
DropTrailingSlashes(p) ==
    IF p # <<>> /\ p[Len(p)] = "/"
    THEN DropTrailingSlashes(SubSeq(p, 1, Len(p) - 1))
    ELSE p

\* Path(p).name: the last component of p, trailing slashes ignored.
PathName(p) ==
    LET q == DropTrailingSlashes(p) IN
    IF q = <<>> THEN <<>>
    ELSE LET S == {j \in 1..Len(q) : q[j] = "/"}
             i == IF S = {} THEN 0 ELSE CHOOSE j \in S : \A k \in S : k <= j
         IN  SubSeq(q, i + 1, Len(q))

\* urlparse(url).path of an absolute or protocol-relative URL: what follows
\* the host; of any other reference, what follows the scheme.
UrlPath(url) ==
    LET rest == IF url # <<>> /\ url[1] \in {"https:", "http:", "data:"}
                THEN Tail(url) ELSE url
    IN  IF StartsWith(rest, <<"//">>)
        THEN SubSeq(rest, 3, Len(rest))
        ELSE rest

\* The URLs whose digests the model knows, in the order of Python's
\* string comparison; any other string hashes to "h0".
HashedUrls ==
    << <<"http:", "//", "cdn", "/", "foo", "/", "image", ".png">>,
       <<"https:", "//", "cdn", "/">>,
       <<"https:", "//", "cdn", "/", "24664", "/", "image", ".png">>,
       <<"https:", "//", "cdn", "/", "3971", "/", "image", ".png">>,
       <<"https:", "//", "cdn", "/", "bar", "/", "image", ".png">>,
       <<"https:", "//", "cdn", "/", "foo", "/", "image", ".png">>,
       <<"https:", "//", "cdn", "/", "pic">> >>

\* sha256(url).hexdigest()[:8] of each, as hashlib computes it.
HashTokens ==
    <<"cd3ccfde", "7d9279fe", "3f1cfb6c", "3f1cfb6c", "97d9f5e6", "08cc152d", "539cbc4d">>

\* The place of a URL in sorted(urls).
UrlRank(u) ==
    IF \E i \in 1..Len(HashedUrls) : HashedUrls[i] = u
    THEN CHOOSE i \in 1..Len(HashedUrls) : HashedUrls[i] = u
    ELSE 0

\* short_hash: the first 8 hex digits of sha256(s)
short_hash(s) ==
    IF \E i \in 1..Len(HashedUrls) : HashedUrls[i] = s
    THEN HashTokens[CHOOSE i \in 1..Len(HashedUrls) : HashedUrls[i] = s]
    ELSE "h0"

\* safe_filename_from_url
safe_filename_from_url(url) ==
    LET name == PathName(UrlPath(url)) IN
    IF name # <<>>
    THEN LET stem == PathStem(name)
             ext  == Suffix(name)
         IN  IF ext # <<>>
             THEN stem \o <<"-", short_hash(url)>> \o ext
             ELSE stem \o <<"-", short_hash(url)>>
    ELSE <<short_hash(url)>>

\* mimetypes.guess_extension on the content types of the model
guess_extension(ctype) ==
    IF ctype = <<"image/png">> THEN <<".png">>
    ELSE IF ctype = <<"image/jpeg">> THEN <<".jpg">>
    ELSE None

\* ensure_ext: append an extension inferred from the content type to a path
\* that has none.
ensure_ext(path, content_type) ==
    IF Suffix(PathName(path)) # <<>> THEN path
    ELSE IF content_type = <<>> THEN path
    ELSE LET ctype == Strip(SplitOn(content_type, ";")[1])
             ext   == guess_extension(ctype)
         IN  IF Truthy(ext) THEN path \o ext ELSE path

\* make_relative: os.path.relpath(dest, start=base) for a dest below base
make_relative(dest, base) ==
    IF StartsWith(dest, base \o <<"/">>)
    THEN SubSeq(dest, Len(base) + 2, Len(dest))
    ELSE dest

\* A normalisation that leaves a protocol-relative reference as written.
CanonicalAsWritten(url) == url

\* The normalisation of process_json_file: a protocol-relative reference
\* gets the https scheme.
Canonical(url) == IF StartsWith(url, <<"//">>) THEN <<"https:">> \o url ELSE url

\* The test of process_json_file for a downloadable URL.
\* A scheme test that lets every reference through.
IsHttpUrlAlways(url) == TRUE

\* url.startswith("http://") or url.startswith("https://")
IsHttpUrl(url) ==
    StartsWith(url, <<"http:", "//">>) \/ StartsWith(url, <<"https:", "//">>)

\* ------------------------------------------------------------------------
\* HTML fragments
\* ------------------------------------------------------------------------
\* An HTML string is a sequence of elements [name, attrs]; attrs maps the
\* attribute names that are present to their values (strings). Character
\* data is an element named "text" without attributes.

\* A lower() that leaves the letters as written.
LowerAsWritten(name) == name

\* str.lower() on the element names of the model
Lower(name) ==
    IF name = "<IMG" THEN "<img"
    ELSE IF name = "<IMGX" THEN "<imgx"
    ELSE name

\* "<img" in obj.lower()
ContainsImgMarker(html) ==
    \E i \in 1..Len(html) : Lower(html[i].name) \in {"<img", "<imgx"}

\* The elements soup.find_all("img") yields, as positions of the fragment.
IsImg(e) == Lower(e.name) = "<img"

\* tag.get(attr)
TagGet(tag, attr) == IF attr \in DOMAIN tag.attrs THEN tag.attrs[attr] ELSE None

\* tag[attr] = value
TagSet(tag, attr, value) == [tag EXCEPT !.attrs = (attr :> value) @@ tag.attrs]

\* del tag.attrs[attr]
TagDel(tag, attr) ==
    [tag EXCEPT !.attrs = [a \in (DOMAIN tag.attrs) \ {attr} |-> tag.attrs[a]]]

PlainAttrs == <<"src", "data-src", "data-original">>

lazy_attrs ==
    <<"data-src", "data-original", "data-lazy", "data-lazy-src",
      "data-lazy-srcset", "loading", "data-srcset">>

\* The non-empty candidates of a srcset value: each part stripped.
SrcsetParts(srcset) ==
    LET parts == SplitOn(srcset, ",")
        strip == [i \in 1..Len(parts) |-> Strip(parts[i])]
    IN  SelectSeq(strip, LAMBDA part : part # <<>>)

\* extract_image_urls_from_tag: the (attr, url) pairs of one <img>
extract_image_urls_from_tag(tag) ==
    LET plain == SelectSeq(
                    [i \in 1..Len(PlainAttrs) |->
                        [attr |-> PlainAttrs[i], url |-> TagGet(tag, PlainAttrs[i])]],
                    LAMBDA r : Truthy(r.url))
        srcset == TagGet(tag, "srcset")
        cands == IF Truthy(srcset) THEN SrcsetParts(srcset) ELSE <<>>
    IN  plain \o [i \in 1..Len(cands) |->
                    [attr |-> "srcset", url |-> SplitWs(cands[i])[1]]]

\* One round of the loop over ("src", "data-src", "data-original") of
\* replace_urls_in_tag.
ReplacePlainAttr(tag, attr, url_map) ==
    LET val == TagGet(tag, attr) IN
    IF ~Truthy(val) THEN tag
    ELSE LET mapped == MapGet(url_map, val)
             t1 == IF Truthy(mapped) THEN TagSet(tag, attr, mapped) ELSE tag
         IN  IF attr \in {"data-src", "data-original"} /\ TagGet(t1, "src") = None
             THEN LET mapped2 == MapGet(url_map, TagGet(t1, attr)) IN
                  IF Truthy(mapped2) THEN TagSet(t1, "src", mapped2) ELSE t1
             ELSE t1

\* A srcset rewrite that leaves every candidate as written.
ReplaceSrcsetEntryKept(part, url_map) == part

\* A srcset rewrite that drops the descriptor of a resolved candidate.
ReplaceSrcsetEntryNoDescriptor(part, url_map) ==
    LET mapped == MapGet(url_map, SplitWs(part)[1]) IN
    IF Truthy(mapped) THEN mapped ELSE part

\* One candidate of a srcset, rewritten.
ReplaceSrcsetEntry(part, url_map) ==
    LET pieces == SplitWs(part)
        url == pieces[1]
        descriptor == IF Len(pieces) > 1 THEN Join(Tail(pieces), <<" ">>) ELSE <<>>
        mapped == MapGet(url_map, url)
    IN  IF Truthy(mapped) THEN Strip(mapped \o <<" ">> \o descriptor) ELSE part

\* The srcset part of replace_urls_in_tag.
ReplaceSrcset(tag, url_map) ==
    LET srcset == TagGet(tag, "srcset") IN
    IF ~Truthy(srcset) THEN tag
    ELSE LET parts == SrcsetParts(srcset)
             new_entries == [i \in 1..Len(parts) |-> ReplaceSrcsetEntry(parts[i], url_map)]
         IN  TagSet(tag, "srcset", Join(new_entries, <<",", " ">>))

RECURSIVE DelAttrs(_, _)
DelAttrs(tag, attrs) ==
    IF attrs = <<>> THEN tag
    ELSE DelAttrs(IF attrs[1] \in DOMAIN tag.attrs THEN TagDel(tag, attrs[1]) ELSE tag,
                  Tail(attrs))

\* The last loop of replace_urls_in_tag: the lazy-loading attributes go.
StripLazyAttrs(tag) == DelAttrs(tag, lazy_attrs)

\* replace_urls_in_tag
replace_urls_in_tag(tag, url_map) ==
    LET t1 == ReplacePlainAttr(tag, "src", url_map)
        t2 == ReplacePlainAttr(t1, "data-src", url_map)
        t3 == ReplacePlainAttr(t2, "data-original", url_map)
        t4 == ReplaceSrcset(t3, url_map)
    IN  StripLazyAttrs(t4)

\* ------------------------------------------------------------------------
\* JSON documents
\* ------------------------------------------------------------------------
\* A JSON value is [t, v]: t = "obj" with v the sequence of its [key, val]
\* entries in document order, t = "arr" with v the sequence of its items,
\* t = "str" with v the string (an HTML element sequence), t = "other" for
\* numbers, booleans and null. [t |-> "invalid"] stands for a file whose
\* text json.loads rejects.

Key(k) == [kind |-> "key", key |-> k, index |-> 0]
Index(i) == [kind |-> "index", key |-> "", index |-> i]

RECURSIVE Concat(_)
Concat(ss) == IF ss = <<>> THEN <<>> ELSE ss[1] \o Concat(Tail(ss))

RECURSIVE walk_and_collect_html(_, _)
\* walk_and_collect_html: the hits (path, html) below obj, in visiting order
walk_and_collect_html(obj, path) ==
    IF obj.t = "obj"
    THEN Concat([i \in 1..Len(obj.v) |->
                    walk_and_collect_html(obj.v[i].val, Append(path, Key(obj.v[i].key)))])
    ELSE IF obj.t = "arr"
    THEN Concat([i \in 1..Len(obj.v) |->
                    walk_and_collect_html(obj.v[i], Append(path, Index(i - 1)))])
    ELSE IF obj.t = "str"
    THEN IF ContainsImgMarker(obj.v)
         THEN << [path |-> path, html |-> obj.v] >>
         ELSE <<>>
    ELSE <<>>

\* cur[p]
GetItem(cur, p) ==
    IF p.kind = "key"
    THEN cur.v[CHOOSE i \in 1..Len(cur.v) : cur.v[i].key = p.key].val
    ELSE cur.v[p.index + 1]

\* cur[p] = value
SetItem(cur, p, value) ==
    IF p.kind = "key"
    THEN [cur EXCEPT !.v[CHOOSE i \in 1..Len(cur.v) : cur.v[i].key = p.key].val = value]
    ELSE [cur EXCEPT !.v[p.index + 1] = value]

\* path[-1] of set_by_path raises IndexError on the empty path.
set_by_path_raises(path) == path = <<>>

RECURSIVE set_by_path(_, _, _)
\* set_by_path on a non-empty path: the document with the value at path
\* replaced
set_by_path(root, path, value) ==
    IF Len(path) = 1
    THEN SetItem(root, path[1], value)
    ELSE SetItem(root, path[1], set_by_path(GetItem(root, path[1]), Tail(path), value))

\* ------------------------------------------------------------------------
\* process_json_file: its pure parts
\* ------------------------------------------------------------------------

\* The modelled JSON files are found by find_jsons; each has its path.
Files == {"f1", "f2"}

json_path(f) ==
    IF f = "f1" THEN <<"d1", "/", "q", ".json">> ELSE <<"d2", "/", "q", ".json">>

\* The place of a file in find_jsons' sorted list.
FileRank(f) == IF f = "f1" THEN 1 ELSE 2

\* Path.parent
Parent(p) ==
    LET S == {j \in 1..Len(p) : p[j] = "/"}
        i == CHOOSE j \in S : \A k \in S : k <= j
    IN  SubSeq(p, 1, i - 1)

\* json_path.stem
filename(f) == PathStem(PathName(json_path(f)))

assets_dir(f) == Parent(json_path(f)) \o <<"/", "assets", "/">> \o filename(f)

manifest_dirname == <<"manifest">>

manifest_folder(f) == Parent(json_path(f)) \o <<"/">> \o manifest_dirname

manifest_path(f) ==
    manifest_folder(f) \o <<"/">> \o filename(f) \o <<"_manifest.json">>

\* The (attr, url) pairs of every <img> of every hit, in the order the
\* loops of process_json_file meet them.
RefsOfHtml(html) ==
    Concat([i \in 1..Len(html) |->
              IF IsImg(html[i]) THEN extract_image_urls_from_tag(html[i]) ELSE <<>>])

RefsOfHits(hits) == Concat([i \in 1..Len(hits) |-> RefsOfHtml(hits[i].html)])

\* The keys url_to_dest gets: the canonical form of every reference that is
\* non-empty and, once canonical, an http(s) URL.
DownloadableUrls(hits) ==
    LET refs == RefsOfHits(hits) IN
    { Canonical(refs[i].url) :
        i \in { j \in 1..Len(refs) :
                  Truthy(refs[j].url) /\ IsHttpUrl(Canonical(refs[j].url)) } }

\* The destination process_json_file gives to a URL.
DestOf(f, url) ==
    LET fname == safe_filename_from_url(url)
        dest  == assets_dir(f) \o <<"/">> \o fname
        stem  == PathStem(PathName(dest))
    IN  IF (\A i \in 1..Len(stem) : stem[i] # "-") \/ EndsWith(stem, <<short_hash(url)>>)
        THEN dest
        ELSE assets_dir(f) \o <<"/">> \o stem \o <<"-", short_hash(url)>>
                 \o Suffix(PathName(dest))

\* url_to_dest as built by process_json_file
UrlToDest(f, hits) == [u \in DownloadableUrls(hits) |-> DestOf(f, u)]

\* The dict a sequence of [url, value] entries stands for.
AsDict(entries) ==
    [u \in {entries[i].url : i \in 1..Len(entries)} |->
        entries[CHOOSE i \in 1..Len(entries) : entries[i].url = u].value]

\* url_map: the URLs download_all saved, in the order of result.items(),
\* with the saved path made relative to the JSON file's directory.
UrlMapOf(f, result) ==
    LET ok == SelectSeq(result, LAMBDA r : r.value # None) IN
    [i \in 1..Len(ok) |->
        [url |-> ok[i].url, value |-> make_relative(ok[i].value, Parent(json_path(f)))]]

\* A failed section that lists every URL of the result.
FailedOfEveryUrl(result) ==
    [i \in 1..Len(result) |-> [url |-> result[i].url, value |-> <<"download_failed">>]]

\* failed: the URLs whose result is None, in the order of result.items()
FailedOf(result) ==
    LET bad == SelectSeq(result, LAMBDA r : r.value = None) IN
    [i \in 1..Len(bad) |-> [url |-> bad[i].url, value |-> <<"download_failed">>]]

RECURSIVE LocalMapFrom(_, _, _)
\* local_map of one <img>: for every reference that resolves, the reference
\* as written and its canonical form both map to the local path.
LocalMapFrom(refs, url_map, acc) ==
    IF refs = <<>> THEN acc
    ELSE LET url == refs[1].url
             u   == Canonical(url)
             m1  == MapGet(url_map, u)
             mapped == IF Truthy(m1) THEN m1 ELSE MapGet(url_map, url)
             acc2 == IF Truthy(url) /\ Truthy(mapped)
                     THEN (u :> mapped) @@ (url :> mapped) @@ acc
                     ELSE acc
         IN  LocalMapFrom(Tail(refs), url_map, acc2)

\* A loop body that hands every <img> to replace_urls_in_tag.
RewriteImgAlways(img, url_map) ==
    replace_urls_in_tag(img, LocalMapFrom(extract_image_urls_from_tag(img), url_map, <<>>))

\* The body of the loop over soup.find_all("img") in the rewrite phase.
RewriteImg(img, url_map) ==
    LET local_map == LocalMapFrom(extract_image_urls_from_tag(img), url_map, <<>>) IN
    IF DOMAIN local_map # {} THEN replace_urls_in_tag(img, local_map) ELSE img

\* str(soup) after the rewrite of its <img> elements; the serialiser writes
\* tag names in lower case.
RewriteHtml(html, url_map) ==
    [i \in 1..Len(html) |->
        IF IsImg(html[i])
        THEN [RewriteImg(html[i], url_map) EXCEPT !.name = Lower(html[i].name)]
        ELSE [html[i] EXCEPT !.name = Lower(html[i].name)]]

RECURSIVE RewriteHits(_, _, _)
\* The rewrite loop over html_parsed_cache: every hit is written back at
\* its path.
RewriteHits(data, hits, url_map) ==
    IF hits = <<>> THEN data
    ELSE RewriteHits(
            set_by_path(data, hits[1].path,
                        [t |-> "str", v |-> RewriteHtml(hits[1].html, url_map)]),
            Tail(hits), url_map)

\* ------------------------------------------------------------------------
\* State
\* ------------------------------------------------------------------------

VARIABLES
    args,           \* the arguments of the current main_async call
    runs_left,      \* how many further main_async calls the model makes
    main_pc,        \* "running" | "returned": the current main_async call
    disk_json,      \* per file, the JSON document stored on disk
    disk_manifest,  \* per file, the manifest stored on disk
    fs,             \* the non-empty asset files on disk (their paths)
    dirs,           \* the directories the program created
    pc,             \* per file, where its file_worker is
    data,           \* per file, the document process_json_file loaded
    url_to_dest,    \* per file, url_to_dest of process_json_file
    workers,        \* per file and URL, the download_all worker task
    out,            \* per file, the dict out of download_all, in insertion order
    hist,           \* what the disk held when the current call began
    fault_seen      \* whether a directory or file operation has failed so far

vars == <<args, runs_left, main_pc, disk_json, disk_manifest, fs, dirs,
          pc, data, url_to_dest, workers, out, hist, fault_seen>>

NoManifest == [exists |-> FALSE, mappings |-> <<>>, failed |-> <<>>]

NoData == [t |-> "other", v |-> <<>>]

Terminal == {"done", "no_hits", "no_urls", "failed"}

\* A worker task: st is "pending" (created, not past the semaphore),
\* "fetching" (a GET is in flight), "sleeping" (between attempts), "done",
\* "raised" or "cancelled"; gets counts the GETs it issued (the loop
\* variable attempt of fetch_with_retries is gets - 1), fails those that
\* failed; why tells how it ended.
NewWorker == [st |-> "pending", gets |-> 0, fails |-> 0, why |-> "none"]

\* A semaphore that a worker keeps when it ends.
HoldersForEver(f) == {u \in DOMAIN workers[f] : workers[f][u].st # "pending"}

\* A semaphore that nobody is ever seen to hold.
NoHolders(f) == {}

\* The workers of file f that hold its download semaphore.
Holders(f) == {u \in DOMAIN workers[f] : workers[f][u].st \in {"fetching", "sleeping"}}

\* The files whose file_worker holds the outer semaphore.
Running == {f \in Files : pc[f] = "downloading"}

\* The content types a response may declare.
CTypes == {<<"image/png">>, <<>>}

\* ------------------------------------------------------------------------
\* main_async.file_worker and process_json_file
\* ------------------------------------------------------------------------

\* An empty url_to_dest that does not end the pass.
EmptyUrlSetGoesOn(utd) == FALSE

\* if not url_to_dest: return
NothingToDownload(utd) == DOMAIN utd = {}

\* A scan whose empty result does not end the pass.
EmptyScanGoesOn(hits) == FALSE

\* if not hits: return
NothingToDo(hits) == hits = <<>>

\* file_worker(j) takes the outer semaphore and runs process_json_file up
\* to its first suspension, the gather of download_all: load, scan, create
\* the assets directory, extract the URLs, create one worker per URL.
StartFile(f) ==
    /\ main_pc = "running"
    /\ pc[f] = "queued"
    /\ Cardinality(Running) < args.file_concurrency
    \* the file tasks were created in the order of sorted(jsons)
    /\ \A g \in Files : pc[g] = "queued" => FileRank(f) <= FileRank(g)
    /\ UNCHANGED <<args, runs_left, main_pc, disk_json, disk_manifest, fs, hist>>
    /\ IF disk_json[f].t = "invalid"
       THEN \* json.loads raises; file_worker logs it
            /\ pc' = [pc EXCEPT ![f] = "failed"]
            /\ UNCHANGED <<dirs, data, url_to_dest, workers, out, fault_seen>>
       ELSE LET hits == walk_and_collect_html(disk_json[f], <<>>) IN
            /\ data' = [data EXCEPT ![f] = disk_json[f]]
            /\ IF NothingToDo(hits)
               THEN /\ pc' = [pc EXCEPT ![f] = "no_hits"]
                    /\ UNCHANGED <<dirs, url_to_dest, workers, out, fault_seen>>
               ELSE \E mkdir_ok \in BOOLEAN :
                      IF ~mkdir_ok
                      THEN \* assets_dir.mkdir raises
                           /\ pc' = [pc EXCEPT ![f] = "failed"]
                           /\ fault_seen' = TRUE
                           /\ UNCHANGED <<dirs, url_to_dest, workers, out>>
                      ELSE LET utd == UrlToDest(f, hits) IN
                           /\ dirs' = dirs \cup {assets_dir(f)}
                           /\ UNCHANGED fault_seen
                           /\ IF NothingToDownload(utd)
                              THEN /\ pc' = [pc EXCEPT ![f] = "no_urls"]
                                   /\ UNCHANGED <<url_to_dest, workers, out>>
                              ELSE /\ pc' = [pc EXCEPT ![f] = "downloading"]
                                   /\ url_to_dest' = [url_to_dest EXCEPT ![f] = utd]
                                   /\ workers' = [workers EXCEPT
                                                    ![f] = [u \in DOMAIN utd |-> NewWorker]]
                                   /\ out' = [out EXCEPT ![f] = <<>>]

\* The manifest process_json_file builds from the result of download_all.
ManifestOf(f, result) ==
    [exists |-> TRUE, mappings |-> UrlMapOf(f, result), failed |-> FailedOf(result)]

\* A gather that is over as soon as one worker is done.
GatherDoneAtFirst(f) == \E u \in DOMAIN workers[f] : workers[f][u].st = "done"

\* await asyncio.gather(*tasks) of download_all returns: every worker is
\* done.
GatherDone(f) == \A u \in DOMAIN workers[f] : workers[f][u].st = "done"

\* A process_json_file that pays no attention to dry_run.
DryRunIgnored == FALSE

\* if dry_run: neither the manifest nor the JSON file is written
WritesSkipped == args.dry_run

\* download_all returned: process_json_file builds url_map and failed,
\* rewrites every hit, then writes the manifest and the JSON file.
FinishFile(f) ==
    /\ main_pc = "running"
    /\ pc[f] = "downloading"
    /\ GatherDone(f)
    /\ UNCHANGED <<args, runs_left, main_pc, fs, url_to_dest, workers, out, hist>>
    /\ LET result == out[f]
           url_map == AsDict(UrlMapOf(f, result))
           hits == walk_and_collect_html(data[f], <<>>)
       IN  IF \E i \in 1..Len(hits) : set_by_path_raises(hits[i].path)
           THEN /\ pc' = [pc EXCEPT ![f] = "failed"]
                /\ UNCHANGED <<disk_json, disk_manifest, dirs, data, fault_seen>>
           ELSE \E fault \in {"none", "manifest_mkdir", "manifest_write", "json_write"} :
                  LET new_data == RewriteHits(data[f], hits, url_map) IN
                  /\ data' = [data EXCEPT ![f] = new_data]
                  /\ fault_seen' = (fault_seen \/ fault # "none")
                  /\ IF fault = "manifest_mkdir"
                     THEN /\ pc' = [pc EXCEPT ![f] = "failed"]
                          /\ UNCHANGED <<disk_json, disk_manifest, dirs>>
                     ELSE /\ dirs' = dirs \cup {manifest_folder(f)}
                          /\ IF WritesSkipped
                             THEN /\ fault = "none"
                                  /\ pc' = [pc EXCEPT ![f] = "done"]
                                  /\ UNCHANGED <<disk_json, disk_manifest>>
                             ELSE IF fault = "manifest_write"
                             THEN /\ pc' = [pc EXCEPT ![f] = "failed"]
                                  /\ UNCHANGED <<disk_json, disk_manifest>>
                             ELSE /\ disk_manifest' =
                                       [disk_manifest EXCEPT ![f] = ManifestOf(f, result)]
                                  /\ IF fault = "json_write"
                                     THEN /\ pc' = [pc EXCEPT ![f] = "failed"]
                                          /\ UNCHANGED disk_json
                                     ELSE /\ pc' = [pc EXCEPT ![f] = "done"]
                                          /\ disk_json' = [disk_json EXCEPT ![f] = new_data]

\* A worker raised: gather hands the exception to download_all at once,
\* process_json_file ends with it and file_worker logs it. The other
\* workers of the file are not cancelled.
DownloadAllRaises(f) ==
    /\ main_pc = "running"
    /\ pc[f] = "downloading"
    /\ \E u \in DOMAIN workers[f] : workers[f][u].st = "raised"
    \* the event loop runs every worker that can take the semaphore before
    \* it resumes download_all
    /\ \A v \in DOMAIN workers[f] :
          workers[f][v].st = "pending" =>
            Cardinality(Holders(f)) >= args.download_concurrency
    /\ pc' = [pc EXCEPT ![f] = "failed"]
    /\ UNCHANGED <<args, runs_left, main_pc, disk_json, disk_manifest, fs, dirs,
                   data, url_to_dest, workers, out, hist, fault_seen>>

\* ------------------------------------------------------------------------
\* download_all.worker and fetch_with_retries
\* ------------------------------------------------------------------------

\* A worker that issued a GET too many: the loop would run once more.
AttemptsLeftOffByOne(w) == w.gets < args.retries + 2

\* for attempt in range(retries + 1): whether the loop has an attempt left
\* after the w.gets attempts made.
AttemptsLeft(w) == w.gets < args.retries + 1

SetWorker(f, u, w) == [workers EXCEPT ![f][u] = w]

\* An out that records only the URLs that were saved.
PutSavedOnly(f, u, value) ==
    IF value = None THEN out
    ELSE [out EXCEPT ![f] = Append(out[f], [url |-> u, value |-> value])]

\* out[u] = value
Put(f, u, value) == [out EXCEPT ![f] = Append(out[f], [url |-> u, value |-> value])]

\* worker(u) gets the semaphore: the cache check, the mkdir of the
\* destination directory and the first GET of fetch_with_retries.
WorkerStart(f, u) ==
    /\ main_pc = "running"
    /\ workers[f][u].st = "pending"
    /\ Cardinality(Holders(f)) < args.download_concurrency
    \* the tasks were created, and queue for the semaphore, in sorted order
    /\ \A v \in DOMAIN workers[f] :
          workers[f][v].st = "pending" => UrlRank(u) <= UrlRank(v)
    /\ UNCHANGED <<args, runs_left, main_pc, disk_json, disk_manifest, fs,
                   pc, data, url_to_dest, hist>>
    /\ LET dest == url_to_dest[f][u] IN
       IF dest \in fs
       THEN /\ out' = Put(f, u, dest)
            /\ workers' = SetWorker(f, u, [workers[f][u] EXCEPT
                                              !.st = "done", !.why = "cached"])
            /\ UNCHANGED <<dirs, fault_seen>>
       ELSE \E mkdir_ok \in BOOLEAN :
              IF ~mkdir_ok
              THEN /\ workers' = SetWorker(f, u, [workers[f][u] EXCEPT
                                                    !.st = "raised", !.why = "mkdir"])
                   /\ fault_seen' = TRUE
                   /\ UNCHANGED <<dirs, out>>
              ELSE /\ dirs' = dirs \cup {Parent(dest)}
                   /\ UNCHANGED fault_seen
                   /\ IF AttemptsLeft(workers[f][u])
                      THEN /\ workers' = SetWorker(f, u, [workers[f][u] EXCEPT
                                                            !.st = "fetching", !.gets = 1])
                           /\ UNCHANGED out
                      ELSE /\ workers' = SetWorker(f, u, [workers[f][u] EXCEPT
                                                            !.st = "done", !.why = "exhausted"])
                           /\ out' = Put(f, u, None)

\* The GET in flight succeeds: fetch_with_retries returns (content, ctype),
\* the worker writes the content to ensure_ext(dest, ctype).
GetSucceeds(f, u) ==
    /\ main_pc = "running"
    /\ workers[f][u].st = "fetching"
    /\ UNCHANGED <<args, runs_left, main_pc, disk_json, disk_manifest, dirs,
                   pc, data, url_to_dest, hist>>
    /\ \E ctype \in CTypes, write_ok \in BOOLEAN :
         LET dest_with_ext == ensure_ext(url_to_dest[f][u], ctype) IN
         IF write_ok
         THEN /\ fs' = fs \cup {dest_with_ext}
              /\ UNCHANGED fault_seen
              /\ out' = Put(f, u, dest_with_ext)
              /\ workers' = SetWorker(f, u, [workers[f][u] EXCEPT
                                                !.st = "done", !.why = "saved"])
         ELSE /\ out' = Put(f, u, None)
              /\ workers' = SetWorker(f, u, [workers[f][u] EXCEPT
                                                !.st = "done", !.why = "write_failed"])
              /\ fault_seen' = TRUE
              /\ UNCHANGED fs

\* The GET in flight fails (timeout, connection error, status >= 400): the
\* attempt is logged and the worker sleeps.
GetFails(f, u) ==
    /\ main_pc = "running"
    /\ workers[f][u].st = "fetching"
    /\ workers' = SetWorker(f, u, [workers[f][u] EXCEPT
                                      !.st = "sleeping", !.fails = @ + 1])
    /\ UNCHANGED <<args, runs_left, main_pc, disk_json, disk_manifest, fs, dirs,
                   pc, data, url_to_dest, out, hist, fault_seen>>

\* The sleep after a failed attempt ends: the next attempt, or None after
\* the last one.
SleepDone(f, u) ==
    /\ main_pc = "running"
    /\ workers[f][u].st = "sleeping"
    /\ UNCHANGED <<args, runs_left, main_pc, disk_json, disk_manifest, fs, dirs,
                   pc, data, url_to_dest, hist, fault_seen>>
    /\ IF AttemptsLeft(workers[f][u])
       THEN /\ workers' = SetWorker(f, u, [workers[f][u] EXCEPT
                                             !.st = "fetching", !.gets = @ + 1])
            /\ UNCHANGED out
       ELSE /\ workers' = SetWorker(f, u, [workers[f][u] EXCEPT
                                             !.st = "done", !.why = "exhausted"])
            /\ out' = Put(f, u, None)

\* ------------------------------------------------------------------------
\* main_async
\* ------------------------------------------------------------------------

\* A gather that an exception of process_json_file would end: what
\* file_worker without its try/except would give.
FileTasksDoneUncaught ==
    \/ \A f \in Files : pc[f] \in Terminal
    \/ \E f \in Files : pc[f] = "failed"

\* asyncio.gather(*tasks) of main_async is over: every file_worker has
\* ended; none raises, since file_worker catches Exception.
FileTasksDone == \A f \in Files : pc[f] \in Terminal

\* The gather over the file workers returns, the session is closed and
\* asyncio.run cancels the tasks that are left.
MainReturns ==
    /\ main_pc = "running"
    /\ FileTasksDone
    /\ main_pc' = "returned"
    /\ workers' = [f \in Files |->
                     [u \in DOMAIN workers[f] |->
                        IF workers[f][u].st \in {"done", "raised"}
                        THEN workers[f][u]
                        ELSE [workers[f][u] EXCEPT !.st = "cancelled"]]]
    /\ UNCHANGED <<args, runs_left, disk_json, disk_manifest, fs, dirs,
                   pc, data, url_to_dest, out, hist, fault_seen>>

\* The URLs of file f whose content a worker of the current call wrote.
SavedNow(f) == {u \in DOMAIN workers[f] : workers[f][u].why = "saved"}

\* The program is run again over the same root, nothing else having
\* touched the disk.
StartRun ==
    /\ main_pc = "returned"
    /\ runs_left > 0
    /\ runs_left' = runs_left - 1
    /\ main_pc' = "running"
    /\ \E dry \in BOOLEAN : args' = [args EXCEPT !.dry_run = dry]
    /\ pc' = [f \in Files |-> "queued"]
    /\ data' = [f \in Files |-> NoData]
    /\ url_to_dest' = [f \in Files |-> <<>>]
    /\ workers' = [f \in Files |-> <<>>]
    /\ out' = [f \in Files |-> <<>>]
    /\ hist' = [json |-> disk_json, manifest |-> disk_manifest, fs |-> fs,
                saved |-> [f \in Files |-> hist.saved[f] \cup SavedNow(f)],
                dry_run |-> args.dry_run, run |-> hist.run + 1]
    /\ UNCHANGED <<disk_json, disk_manifest, fs, dirs, fault_seen>>

Next ==
    \/ \E f \in Files : StartFile(f)
    \/ \E f \in Files : FinishFile(f)
    \/ \E f \in Files : DownloadAllRaises(f)
    \/ \E f \in Files : \E u \in DOMAIN workers[f] : WorkerStart(f, u)
    \/ \E f \in Files : \E u \in DOMAIN workers[f] : GetSucceeds(f, u)
    \/ \E f \in Files : \E u \in DOMAIN workers[f] : GetFails(f, u)
    \/ \E f \in Files : \E u \in DOMAIN workers[f] : SleepDone(f, u)
    \/ MainReturns
    \/ StartRun

\* ------------------------------------------------------------------------
\* The documents and the runs the model checks
\* ------------------------------------------------------------------------

Retries == 1

DownloadConcurrency == 2

FileConcurrency == 2

MaxRuns == 2

UrlA == <<"https:", "//", "cdn", "/", "foo", "/", "image", ".png">>
UrlB == <<"https:", "//", "cdn", "/", "bar", "/", "image", ".png">>
UrlC == <<"https:", "//", "cdn", "/", "pic">>
UrlD == <<"https:", "//", "cdn", "/", "3971", "/", "image", ".png">>
UrlE == <<"https:", "//", "cdn", "/", "24664", "/", "image", ".png">>
RelX == <<"x", ".jpg">>

Text == [name |-> "text", attrs |-> <<>>]

\* <img data-src="https://cdn/foo/image.png" loading="lazy">
ImgLazy == [name |-> "<img", attrs |-> ("data-src" :> UrlA) @@ ("loading" :> <<"lazy">>)]

\* <IMG src="//cdn/foo/image.png">
ImgProtoRel == [name |-> "<IMG", attrs |-> ("src" :> Tail(UrlA))]

\* <img src="https://cdn/foo/image.png"
\*      srcset="https://cdn/foo/image.png 1x, https://cdn/bar/image.png 2x">
ImgSrcset ==
    [name |-> "<img",
     attrs |-> ("src" :> UrlA)
               @@ ("srcset" :> (UrlA \o <<" ", "1x", ",", " ">> \o UrlB \o <<" ", "2x">>))]

\* <img src="https://cdn/foo/image.png">
ImgPlain == [name |-> "<img", attrs |-> ("src" :> UrlA)]

\* <img src="https://cdn/pic">
ImgNoExt == [name |-> "<img", attrs |-> ("src" :> UrlC)]

\* <img srcset="https://cdn/pic  2x ,x.jpg,, //cdn/pic">
ImgSrcsetMixed ==
    [name |-> "<img",
     attrs |-> ("srcset" :> (UrlC \o <<" ", " ", "2x", " ", ",">> \o RelX
                                  \o <<",", ",", " ">> \o Tail(UrlC)))]

\* <img src="https://cdn/3971/image.png">
ImgD == [name |-> "<img", attrs |-> ("src" :> UrlD)]

\* <img src="https://cdn/24664/image.png">
ImgE == [name |-> "<img", attrs |-> ("src" :> UrlE)]

\* <img src="data:image/png;base64,AAAA">
ImgData == [name |-> "<img", attrs |-> ("src" :> <<"data:", "image/png;base64,AAAA">>)]

\* <img data-src="ftp://cdn/pic">
ImgFtp == [name |-> "<img", attrs |-> ("data-src" :> <<"ftp:", "//", "cdn", "/", "pic">>)]

\* <img src="x.jpg">
ImgRelative == [name |-> "<img", attrs |-> ("src" :> RelX)]

Str(v) == [t |-> "str", v |-> v]
Arr(v) == [t |-> "arr", v |-> v]
Obj(v) == [t |-> "obj", v |-> v]
Entry(k, val) == [key |-> k, val |-> val]
Other == [t |-> "other", v |-> <<>>]

DocLazy ==
    Obj(<< Entry("q", Str(<<Text, ImgLazy>>)),
           Entry("opts", Arr(<<Str(<<ImgProtoRel>>), Str(<<Text>>), Other,
                                Str(<<ImgPlain>>)>>)) >>)

DocSrcset == Obj(<< Entry("q", Str(<<ImgSrcset>>)) >>)

DocNoExt == Obj(<< Entry("q", Str(<<ImgNoExt, ImgRelative, ImgSrcsetMixed, ImgData>>)) >>)

DocSameDigest == Obj(<< Entry("q", Str(<<ImgD, Text, ImgE>>)) >>)

\* A JSON file that is one string: "<img src=\"https://cdn/foo/image.png\">"
DocRootString == Str(<<ImgPlain>>)

DocNoImg == Obj(<< Entry("q", Str(<<Text>>)), Entry("n", Other) >>)

DocRelOnly == Arr(<< Str(<<ImgRelative>>), Str(<<ImgData, ImgFtp>>) >>)

DocInvalid == [t |-> "invalid", v |-> <<>>]

\* The state in which main_async is called for the first time: the
\* documents json, the arguments a, runs calls in all.
InitWith(json, a, runs) ==
    /\ disk_json = json
    /\ args = a
    /\ runs_left = runs - 1
    /\ main_pc = "running"
    /\ disk_manifest = [f \in Files |-> NoManifest]
    /\ fs = {}
    /\ dirs = {}
    /\ pc = [f \in Files |-> "queued"]
    /\ data = [f \in Files |-> NoData]
    /\ url_to_dest = [f \in Files |-> <<>>]
    /\ workers = [f \in Files |-> <<>>]
    /\ out = [f \in Files |-> <<>>]
    /\ fault_seen = FALSE
    /\ hist = [json |-> json, manifest |-> [f \in Files |-> NoManifest], fs |-> {},
               saved |-> [f \in Files |-> {}], dry_run |-> a.dry_run, run |-> 1]

Args(dc, fc, r, dry) ==
    [download_concurrency |-> dc, file_concurrency |-> fc, retries |-> r, dry_run |-> dry]

Docs(d1, d2) == [f \in Files |-> IF f = "f1" THEN d1 ELSE d2]

Scenario(d1, d2, fc, r, dry, runs) ==
    [json |-> Docs(d1, d2), args |-> Args(DownloadConcurrency, fc, r, dry), runs |-> runs]

Scenarios ==
    { Scenario(DocLazy, DocInvalid, FileConcurrency, Retries, dry, 1) : dry \in BOOLEAN }
    \cup { Scenario(DocInvalid, DocLazy, 1, Retries, FALSE, 1) }
    \cup { Scenario(DocSrcset, DocSrcset, 1, 0, FALSE, 1) }
    \cup { Scenario(DocNoExt, DocNoImg, FileConcurrency, Retries, dry, MaxRuns) :
             dry \in BOOLEAN }
    \cup { Scenario(DocSrcset, DocRelOnly, FileConcurrency, Retries, FALSE, MaxRuns) }
    \cup { Scenario(DocSameDigest, DocNoImg, FileConcurrency, 0, FALSE, 1) }
    \cup { Scenario(DocRootString, DocNoImg, FileConcurrency, 0, FALSE, 1) }
    \cup { [json |-> Docs(DocSrcset, DocNoImg),
            args |-> Args(1, FileConcurrency, Retries, FALSE), runs |-> 1] }

Init == \E sc \in Scenarios : InitWith(sc.json, sc.args, sc.runs)

Spec == Init /\ [][Next]_vars

\* The step FinishFile(f) makes, seen on pc alone: FinishFile(f) can be
\* taken exactly when every worker of a downloading file is done, and it
\* is the only step that then moves pc[f].
FinishFileEnds(f) ==
    /\ main_pc = "running"
    /\ pc[f] = "downloading"
    /\ GatherDone(f)
    /\ pc' \in {[pc EXCEPT ![f] = "done"], [pc EXCEPT ![f] = "failed"]}

\* The event loop runs every task that can run, and every GET ends with a
\* response or an error (the session has a total timeout); whether the
\* program is run again is up to its user.
Fairness ==
    /\ WF_vars(\E f \in Files : StartFile(f))
    /\ WF_pc(\E f \in Files : FinishFileEnds(f))
    /\ WF_vars(\E f \in Files : DownloadAllRaises(f))
    /\ WF_vars(\E f \in Files : \E u \in DOMAIN workers[f] : WorkerStart(f, u))
    /\ WF_vars(\E f \in Files : \E u \in DOMAIN workers[f] :
                  GetSucceeds(f, u) \/ GetFails(f, u))
    /\ WF_vars(\E f \in Files : \E u \in DOMAIN workers[f] : SleepDone(f, u))
    /\ WF_vars(MainReturns)

LiveSpec == Init /\ [][Next]_vars /\ Fairness

\* ------------------------------------------------------------------------
\* What the claims speak of
\* ------------------------------------------------------------------------

RECURSIVE GetByPath(_, _)
\* The value found by following path from root.
GetByPath(root, path) ==
    IF path = <<>> THEN root ELSE GetByPath(GetItem(root, path[1]), Tail(path))

\* The hits of the document file f held when the current call began.
HitsOf(f) == walk_and_collect_html(hist.json[f], <<>>)

\* The pass over f rewrote its hits (FinishFile ran to its end).
Rewritten(f) == pc[f] = "done"

\* Every <img> of f before and after the rewrite: hit i, element j.
ImgPairs(f) ==
    LET hits == HitsOf(f)
        at   == UNION { { <<i, j>> : j \in { k \in 1..Len(hits[i].html) :
                                               IsImg(hits[i].html[k]) } } :
                        i \in 1..Len(hits) }
    IN  { [hit |-> p[1], el |-> p[2],
           before |-> hits[p[1]].html[p[2]],
           after |-> GetByPath(data[f], hits[p[1]].path).v[p[2]]] : p \in at }

\* The references of f that outlive the rewrite: the src of an <img>
\* (k = 0) and the URL of its k-th srcset candidate, as written before
\* (raw) and as it stands after (now).
Occurrences(f) ==
    UNION { LET b == p.before
                a == p.after
                pb == IF Truthy(TagGet(b, "srcset"))
                      THEN SrcsetParts(TagGet(b, "srcset")) ELSE <<>>
                pa == IF Truthy(TagGet(a, "srcset"))
                      THEN SrcsetParts(TagGet(a, "srcset")) ELSE <<>>
            IN  (IF Truthy(TagGet(b, "src"))
                 THEN { [hit |-> p.hit, el |-> p.el, k |-> 0,
                         raw |-> TagGet(b, "src"), now |-> TagGet(a, "src")] }
                 ELSE {})
                \cup { [hit |-> p.hit, el |-> p.el, k |-> k,
                        raw |-> SplitWs(pb[k])[1],
                        now |-> IF k <= Len(pa) THEN SplitWs(pa[k])[1] ELSE None] :
                       k \in 1..Len(pb) }
            : p \in ImgPairs(f) }

\* The URLs of f that download_all resolved, with the local relative path
\* of each.
SavedMap(f) == AsDict(UrlMapOf(f, out[f]))

\* The entries of out[f] for URL u.
OutEntries(f, u) == {i \in 1..Len(out[f]) : out[f][i].url = u}

\* The keys of a manifest section, as a sequence, are what json.dumps
\* writes in this order.
SectionKeys(entries) == [i \in 1..Len(entries) |-> entries[i].url]

\* ------------------------------------------------------------------------
\* C1
\* ------------------------------------------------------------------------

\* C1: every <img> that had no src and whose data-src or data-original URL
\* was downloaded has, after the rewrite, a src equal to the local relative
\* path of that URL, and has lost data-src, data-original and loading.
C1_LazySrcSynthesized ==
    \A f \in Files : Rewritten(f) =>
      \A p \in ImgPairs(f) :
        LET resolved == { a \in {"data-src", "data-original"} :
                            /\ Truthy(TagGet(p.before, a))
                            /\ Canonical(TagGet(p.before, a)) \in DOMAIN SavedMap(f) }
        IN  (TagGet(p.before, "src") = None /\ resolved # {}) =>
              /\ TagGet(p.after, "src") \in
                    { SavedMap(f)[Canonical(TagGet(p.before, a))] : a \in resolved }
              /\ {"data-src", "data-original", "loading"} \cap DOMAIN p.after.attrs = {}

\* ------------------------------------------------------------------------
\* C2
\* ------------------------------------------------------------------------

\* C2: within one pass over a file, a canonical URL referenced several
\* times has one worker: one entry in out at most, at most retries + 1 GETs;
\* and once the file is rewritten every src and every srcset candidate that
\* referenced a saved URL holds that URL's one local relative path.
C2_OneDownloadOnePath ==
    \A f \in Files :
      /\ \A u \in DOMAIN workers[f] :
            /\ workers[f][u].gets <= args.retries + 1
            /\ Cardinality(OutEntries(f, u)) <= 1
            /\ workers[f][u].st = "done" => Cardinality(OutEntries(f, u)) = 1
      /\ Rewritten(f) =>
            \A o \in Occurrences(f) :
              Canonical(o.raw) \in DOMAIN SavedMap(f) =>
                o.now = SavedMap(f)[Canonical(o.raw)]

\* A rewritten file in which one fetched URL stood in two places, both now
\* holding its local path.
C2_Witness ==
    \E f \in Files :
      /\ Rewritten(f)
      /\ \E o1, o2 \in Occurrences(f) :
            /\ <<o1.hit, o1.el, o1.k>> # <<o2.hit, o2.el, o2.k>>
            /\ Canonical(o1.raw) = Canonical(o2.raw)
            /\ Canonical(o1.raw) \in DOMAIN SavedMap(f)
            /\ workers[f][Canonical(o1.raw)].gets >= 1
            /\ o1.now = o2.now
            /\ o1.now # o1.raw

\* ------------------------------------------------------------------------
\* C3
\* ------------------------------------------------------------------------

\* C3: a reference //host/path and the reference https://host/path of one
\* file are one URL: url_to_dest and out have one entry for them, under the
\* https form, the manifest has that one key, and both references are
\* rewritten to the same local path.
C3_ProtocolRelativeSameUrl ==
    \A f \in Files :
      /\ \A u \in DOMAIN url_to_dest[f] : ~StartsWith(u, <<"//">>)
      /\ Rewritten(f) =>
            \A o1, o2 \in Occurrences(f) :
              (StartsWith(o1.raw, <<"//">>) /\ o2.raw = <<"https:">> \o o1.raw) =>
                /\ o2.raw \in DOMAIN url_to_dest[f]
                /\ Cardinality(OutEntries(f, o2.raw)) = 1
                /\ OutEntries(f, o1.raw) = {}
                /\ o2.raw \in DOMAIN SavedMap(f) =>
                      /\ o1.now = SavedMap(f)[o2.raw]
                      /\ o2.now = SavedMap(f)[o2.raw]
                /\ ~args.dry_run =>
                      LET keys == SectionKeys(disk_manifest[f].mappings)
                                    \o SectionKeys(disk_manifest[f].failed)
                      IN  /\ Cardinality({i \in 1..Len(keys) : keys[i] = o2.raw}) = 1
                          /\ \A i \in 1..Len(keys) : keys[i] # o1.raw

\* A rewritten file that held both forms of a URL that was then fetched.
C3_Witness ==
    \E f \in Files :
      /\ Rewritten(f)
      /\ ~args.dry_run
      /\ \E o1, o2 \in Occurrences(f) :
            /\ StartsWith(o1.raw, <<"//">>)
            /\ o2.raw = <<"https:">> \o o1.raw
            /\ o2.raw \in DOMAIN SavedMap(f)
            /\ o1.now = o2.now
            /\ o1.now # o1.raw

\* ------------------------------------------------------------------------
\* C4
\* ------------------------------------------------------------------------

\* Two files got the same outcome for every URL (paths taken relative to
\* each file's directory).
SameOutcomes(f, g) ==
    /\ AsDict(UrlMapOf(f, out[f])) = AsDict(UrlMapOf(g, out[g]))
    /\ AsDict(FailedOf(out[f])) = AsDict(FailedOf(out[g]))

\* C4: for a fixed JSON input and fixed outcomes of the downloads, the
\* manifest written (the order of its entries included) and the rewritten
\* JSON are the same whatever the order in which the workers complete: two
\* passes over the same document with the same outcomes write the same.
C4_Deterministic ==
    \A f, g \in Files :
      ( /\ pc[f] = "done" /\ pc[g] = "done"
        /\ ~args.dry_run
        /\ hist.json[f] = hist.json[g]
        /\ SameOutcomes(f, g) )
      => /\ disk_manifest[f] = disk_manifest[g]
         /\ disk_json[f] = disk_json[g]

\* ------------------------------------------------------------------------
\* C5
\* ------------------------------------------------------------------------

\* The GETs the current call issued.
GetsIssued == {<<f, u>> \in Files \X UNION {DOMAIN workers[g] : g \in Files} :
                 u \in DOMAIN workers[f] /\ workers[f][u].gets > 0}

\* C5: when main_async has run a second time with the same arguments,
\* nothing else touched the disk and no directory or file operation failed,
\* the second run issued no GET and every manifest is as the first run left
\* it.
C5_SecondRunIdempotent ==
    (main_pc = "returned" /\ hist.run = 2 /\ hist.dry_run = args.dry_run /\ ~fault_seen)
      => /\ GetsIssued = {}
         /\ disk_manifest = hist.manifest

\* ------------------------------------------------------------------------
\* C6
\* ------------------------------------------------------------------------

\* C6: a URL whose content an earlier pass over the file wrote to disk, and
\* which a later pass still references, gets no GET in the later pass and
\* has the existing file as its outcome.
C6_SavedIsCached ==
    \A f \in Files : \A u \in DOMAIN workers[f] :
      u \in hist.saved[f] =>
        /\ workers[f][u].gets = 0
        /\ workers[f][u].st = "done" =>
              /\ workers[f][u].why = "cached"
              /\ \E i \in OutEntries(f, u) : out[f][i].value \in hist.fs

\* ------------------------------------------------------------------------
\* C7
\* ------------------------------------------------------------------------

\* The document f held when the call began has a downloadable image URL.
HasDownloadable(f) ==
    /\ hist.json[f].t # "invalid"
    /\ DownloadableUrls(HitsOf(f)) # {}

\* C7: when main_async returns, every file's pipeline has ended, whichever
\* files failed; and a file that has downloadable images and did not itself
\* fail has, unless the run is a dry-run, the manifest of its downloads and
\* its rewritten JSON on disk.
C7_SiblingsUnaffected ==
    main_pc = "returned" =>
      \A f \in Files :
        /\ pc[f] \in Terminal
        /\ (HasDownloadable(f) /\ pc[f] # "failed") =>
              /\ pc[f] = "done"
              /\ ~args.dry_run =>
                    /\ disk_manifest[f] = ManifestOf(f, out[f])
                    /\ disk_json[f] = RewriteHits(hist.json[f], HitsOf(f), SavedMap(f))

\* main_async returned, one file was invalid JSON and its sibling has a
\* manifest and a rewritten JSON.
C7_Witness ==
    /\ main_pc = "returned"
    /\ \E g, f \in Files :
          /\ g # f
          /\ hist.json[g].t = "invalid"
          /\ pc[g] = "failed"
          /\ pc[f] = "done"
          /\ disk_manifest[f].exists
          /\ disk_json[f] # hist.json[f]

\* ------------------------------------------------------------------------
\* C8
\* ------------------------------------------------------------------------

\* C8: a failure to create the destination directory or to write the
\* destination file of a URL is not raised out of download_all: the worker
\* ends with None recorded for that URL, and the file's pipeline does not
\* end there.
C8_WriteErrorsRecorded ==
    \A f \in Files : \A u \in DOMAIN workers[f] :
      workers[f][u].why \in {"mkdir", "write_failed"} =>
        /\ workers[f][u].st = "done"
        /\ \E i \in OutEntries(f, u) : out[f][i].value = None

\* ------------------------------------------------------------------------
\* C9
\* ------------------------------------------------------------------------

\* What holds of every worker in every state.
C9_WorkerBounds ==
    \A f \in Files : \A u \in DOMAIN workers[f] :
      LET w == workers[f][u] IN
      /\ w.gets <= args.retries + 1
      /\ w.why = "cached" => w.gets = 0
      \* at most one GET did not fail: the one in flight, or the one that
      \* succeeded and ended the loop
      /\ w.gets - w.fails \in {0, 1}
      /\ (w.gets - w.fails = 1 /\ w.st \notin {"fetching", "cancelled"}) =>
            (w.st = "done" /\ w.why \in {"saved", "write_failed"})
      /\ (\E i \in OutEntries(f, u) : out[f][i].value = None) =>
            \/ w.why = "write_failed"
            \/ (w.why = "exhausted" /\ w.fails = args.retries + 1)

\* What holds of every step: a worker that is done issues nothing more, and
\* a failed GET of one URL changes no other worker and no outcome.
C9_StepBounds ==
    \A f \in Files : \A u \in DOMAIN workers[f] :
      u \in DOMAIN workers'[f] =>
        /\ workers[f][u].st = "done" => workers'[f][u] = workers[f][u]
        /\ workers'[f][u].fails > workers[f][u].fails =>
              /\ out' = out
              /\ \A g \in Files : \A v \in DOMAIN workers[g] :
                    <<g, v>> # <<f, u>> => workers'[g][v] = workers[g][v]

\* C9: a URL that is not cached gets at most retries + 1 GETs and none
\* after a successful one; its outcome is None only when all retries + 1
\* attempts failed or the write failed; and the failure of a GET of one URL
\* changes no other URL's worker or outcome.
C9_RetryPolicy == []C9_WorkerBounds /\ [][C9_StepBounds]_vars

\* One URL of a file failed retries + 1 times and has None, while another
\* URL of the same file was saved after a failed attempt.
C9_Witness ==
    \E f \in Files : \E u, v \in DOMAIN workers[f] :
      /\ u # v
      /\ workers[f][u].why = "exhausted"
      /\ workers[f][u].gets = args.retries + 1
      /\ args.retries >= 1
      /\ \E i \in OutEntries(f, u) : out[f][i].value = None
      /\ workers[f][v].why = "saved"
      /\ workers[f][v].fails >= 1

\* ------------------------------------------------------------------------
\* C10
\* ------------------------------------------------------------------------

\* download_all has returned its result to process_json_file, or is about
\* to: every worker is done and none raised.
DownloadAllReturned(f) ==
    \/ pc[f] = "done"
    \/ /\ pc[f] = "downloading"
       /\ \A u \in DOMAIN workers[f] : workers[f][u].st = "done"

\* C10: when download_all returns, out has exactly one entry for every URL
\* it was given and none for any other, each entry being None or the path
\* of the file the URL was saved to or found at.
C10_ResultCoversInput ==
    \A f \in Files : DownloadAllReturned(f) =>
      /\ Len(out[f]) = Cardinality(DOMAIN url_to_dest[f])
      /\ {out[f][i].url : i \in 1..Len(out[f])} = DOMAIN url_to_dest[f]
      /\ \A i \in 1..Len(out[f]) :
            \/ out[f][i].value = None
            \/ /\ out[f][i].value \in
                    {ensure_ext(url_to_dest[f][out[f][i].url], c) : c \in CTypes}
               /\ out[f][i].value \in fs

\* download_all returns a result with a saved URL and a failed one.
C10_Witness ==
    \E f \in Files :
      /\ pc[f] = "downloading"
      /\ \A u \in DOMAIN workers[f] : workers[f][u].st = "done"
      /\ \E i, j \in 1..Len(out[f]) : out[f][i].value = None /\ out[f][j].value \in fs

\* ------------------------------------------------------------------------
\* C11
\* ------------------------------------------------------------------------

\* The workers of f that have not ended: waiting for the semaphore, with a
\* GET in flight, or sleeping between attempts.
InFlight(f) ==
    {u \in DOMAIN workers[f] : workers[f][u].st \in {"pending", "fetching", "sleeping"}}

\* download_all of f has handed control back: process_json_file went on
\* past it, or ended with what it raised.
DownloadAllLeft(f) == pc[f] \in {"done", "failed"} /\ DOMAIN workers[f] # {}

\* C11: download_all hands control back to process_json_file only when
\* every worker of the file has ended: once control is back, no worker of
\* the file is waiting, fetching or sleeping.
C11_ReturnsAfterAllTerminal ==
    \A f \in Files : DownloadAllLeft(f) => InFlight(f) = {}

\* ------------------------------------------------------------------------
\* C12
\* ------------------------------------------------------------------------

\* The asset files the workers of the current call wrote or found.
AssetsOfCall ==
    UNION { {out[f][i].value : i \in 1..Len(out[f])} : f \in Files } \ {None}

\* Discovery, extraction and download of the current call, which are the
\* same with and without dry_run: url_to_dest is the one the document
\* gives, a file that reached the rewrite has an outcome for each of its
\* URLs, and the asset files on disk are those the call began with and
\* those its workers saved.
DownloadsAsAlways ==
    /\ \A f \in Files :
          /\ pc[f] \in {"downloading", "done"} => url_to_dest[f] = UrlToDest(f, HitsOf(f))
          /\ pc[f] = "done" =>
                {out[f][i].url : i \in 1..Len(out[f])} = DownloadableUrls(HitsOf(f))
    /\ fs = hist.fs \cup AssetsOfCall

KeySet(entries) == {entries[i].url : i \in 1..Len(entries)}

\* C13: after a completed pass that is not a dry-run, no URL is a key of
\* both mappings and failed of the file's manifest, the keys of the two are
\* together the canonical http(s) URLs found in the file, a URL is in
\* mappings exactly when its outcome was a path (its value being that path
\* relative to the JSON file's directory), and every value of failed is
\* the reason string.
C13_ManifestPartitionsUrls ==
    \A f \in Files : (pc[f] = "done" /\ ~args.dry_run) =>
      LET m == disk_manifest[f]
          outcome == AsDict(out[f])
      IN  /\ m.exists
          /\ KeySet(m.mappings) \cap KeySet(m.failed) = {}
          /\ KeySet(m.mappings) \cup KeySet(m.failed) = DownloadableUrls(HitsOf(f))
          /\ Len(m.mappings) = Cardinality(KeySet(m.mappings))
          /\ Len(m.failed) = Cardinality(KeySet(m.failed))
          /\ \A u \in DownloadableUrls(HitsOf(f)) :
                u \in KeySet(m.mappings) <=> outcome[u] # None
          /\ \A i \in 1..Len(m.mappings) :
                m.mappings[i].value =
                    make_relative(outcome[m.mappings[i].url], Parent(json_path(f)))
          /\ \A i \in 1..Len(m.failed) : m.failed[i].value = <<"download_failed">>

\* A manifest written with a URL in mappings and another in failed.
C13_Witness ==
    \E f \in Files :
      /\ pc[f] = "done"
      /\ ~args.dry_run
      /\ disk_manifest[f].mappings # <<>>
      /\ disk_manifest[f].failed # <<>>

\* ------------------------------------------------------------------------
\* C14
\* ------------------------------------------------------------------------

\* What a srcset candidate is to become: the local path and the candidate's
\* descriptor when its URL resolved, the candidate as written otherwise.
ExpectedCandidate(f, part) ==
    LET pieces == SplitWs(part)
        u == Canonical(pieces[1])
    IN  IF u \in DOMAIN SavedMap(f)
        THEN IF Len(pieces) > 1
             THEN SavedMap(f)[u] \o <<" ">> \o Join(Tail(pieces), <<" ">>)
             ELSE SavedMap(f)[u]
        ELSE part

\* C14: in a rewritten file every srcset has as many candidates as before,
\* in the same order; the candidate of a resolved URL is the URL's local
\* path followed by the candidate's descriptor, every other candidate is
\* as it was written.
C14_SrcsetFidelity ==
    \A f \in Files : Rewritten(f) =>
      \A p \in ImgPairs(f) :
        Truthy(TagGet(p.before, "srcset")) =>
          LET pb == SrcsetParts(TagGet(p.before, "srcset"))
              pa == SrcsetParts(TagGet(p.after, "srcset"))
          IN  /\ Len(pa) = Len(pb)
              /\ \A k \in 1..Len(pb) : pa[k] = ExpectedCandidate(f, pb[k])

\* A rewritten srcset with a resolved candidate that has a descriptor and
\* a candidate that did not resolve.
C14_Witness ==
    \E f \in Files :
      /\ Rewritten(f)
      /\ \E p \in ImgPairs(f) :
            /\ Truthy(TagGet(p.before, "srcset"))
            /\ LET pb == SrcsetParts(TagGet(p.before, "srcset"))
                    pa == SrcsetParts(TagGet(p.after, "srcset"))
                IN  \E j, k \in 1..Len(pb) :
                      /\ Canonical(SplitWs(pb[j])[1]) \in DOMAIN SavedMap(f)
                      /\ Len(SplitWs(pb[j])) > 1
                      /\ pa[j] # pb[j]
                      /\ Canonical(SplitWs(pb[k])[1]) \notin DOMAIN SavedMap(f)
                      /\ pa[k] = pb[k]

\* ------------------------------------------------------------------------
\* C15
\* ------------------------------------------------------------------------

\* The paths the content of URL u of file f may be written to.
SavePaths(f, u) == {ensure_ext(url_to_dest[f][u], c) : c \in CTypes}

\* C15: two distinct canonical URLs of one file have distinct destination
\* paths, and distinct paths for their saved files whatever extension
\* ensure_ext appends.
C15_DistinctDestinations ==
    \A f \in Files : \A u, v \in DOMAIN url_to_dest[f] :
      u # v =>
        /\ url_to_dest[f][u] # url_to_dest[f][v]
        /\ SavePaths(f, u) \cap SavePaths(f, v) = {}

\* ------------------------------------------------------------------------
\* C16
\* ------------------------------------------------------------------------

\* C16: a file whose process_json_file ended with an exception has its
\* manifest and its JSON file on disk as they were when the call began.
C16_FailedFileLeavesDiskAlone ==
    \A f \in Files : pc[f] = "failed" =>
      /\ disk_manifest[f] = hist.manifest[f]
      /\ disk_json[f] = hist.json[f]

\* ------------------------------------------------------------------------
\* C17
\* ------------------------------------------------------------------------

\* The document f held when the call began parses and has no string with
\* an <img marker.
NoHits(f) == hist.json[f].t # "invalid" /\ HitsOf(f) = <<>>

\* C17: for a file in which the scan finds nothing, the pass creates
\* neither the assets directory nor the manifest directory nor a manifest,
\* starts no download worker and leaves the JSON file as it is.
C17_NoHitsNoEffect ==
    \A f \in Files : NoHits(f) =>
      /\ pc[f] \in {"queued", "no_hits"}
      /\ assets_dir(f) \notin dirs
      /\ manifest_folder(f) \notin dirs
      /\ disk_manifest[f] = hist.manifest[f]
      /\ ~disk_manifest[f].exists
      /\ workers[f] = <<>>
      /\ disk_json[f] = hist.json[f]

\* main_async returned after skipping a file without hits, while a
\* sibling with images got its directories.
C17_Witness ==
    /\ main_pc = "returned"
    /\ \E f, g \in Files :
          /\ NoHits(f)
          /\ pc[f] = "no_hits"
          /\ pc[g] = "done"
          /\ assets_dir(g) \in dirs
          /\ manifest_folder(g) \in dirs

\* ------------------------------------------------------------------------
\* C18
\* ------------------------------------------------------------------------

\* The workers of f that are past the semaphore and have not ended.
PastSemaphore(f) ==
    {u \in DOMAIN workers[f] : workers[f][u].st \in {"fetching", "sleeping"}}

\* C18: in every state, the workers of one file that are past the
\* semaphore of its download_all are at most download_concurrency.
C18_DownloadLimit ==
    \A f \in Files : Cardinality(PastSemaphore(f)) <= args.download_concurrency

\* A file with more URLs than the limit: as many workers as the limit
\* allows are fetching or sleeping while another waits.
C18_Witness ==
    \E f \in Files :
      /\ Cardinality(DOMAIN workers[f]) > args.download_concurrency
      /\ Cardinality(PastSemaphore(f)) = args.download_concurrency
      /\ \E u \in DOMAIN workers[f] : workers[f][u].st = "pending"

\* ------------------------------------------------------------------------
\* C19
\* ------------------------------------------------------------------------

\* The files whose process_json_file has begun and not ended.
InProgress == {f \in Files : pc[f] = "downloading"}

\* The download workers, of all files, that are past their semaphore and
\* have not ended.
AllPastSemaphore == {<<f, u>> \in Files \X UNION {DOMAIN workers[g] : g \in Files} :
                       u \in PastSemaphore(f)}

\* C19: in every state at most file_concurrency files are in progress, and
\* the download workers in progress over all files are at most
\* file_concurrency times download_concurrency.
C19_FileLimit ==
    /\ Cardinality(InProgress) <= args.file_concurrency
    /\ Cardinality(AllPastSemaphore) <= args.file_concurrency * args.download_concurrency

\* ------------------------------------------------------------------------
\* C20
\* ------------------------------------------------------------------------

\* In every state: the workers of a file are those of the whole URL set of
\* its document, and a document that has been rewritten has all its
\* workers done.
C20_PhaseStates ==
    \A f \in Files :
      /\ workers[f] # <<>> =>
            /\ DOMAIN workers[f] = DownloadableUrls(HitsOf(f))
            /\ url_to_dest[f] = UrlToDest(f, HitsOf(f))
      /\ (data[f] \notin {NoData, hist.json[f]} \/ pc[f] = "done") =>
            \A u \in DOMAIN workers[f] : workers[f][u].st \in {"done", "cancelled"}

\* In every step: a worker leaves the semaphore queue only when the URL
\* set is there, and the rewrite and the two writes happen only when no
\* worker of the file is left to end.
C20_PhaseSteps ==
    \A f \in Files :
      /\ (\E u \in DOMAIN workers[f] :
              /\ u \in DOMAIN workers'[f]
              /\ workers[f][u].st = "pending"
              /\ workers'[f][u].st \notin {"pending", "cancelled"})
           => DOMAIN url_to_dest[f] = DownloadableUrls(HitsOf(f))
      /\ ( \/ (pc[f] = "downloading" /\ data'[f] # data[f])
           \/ disk_manifest'[f] # disk_manifest[f]
           \/ disk_json'[f] # disk_json[f] )
           => /\ workers[f] # <<>>
              /\ \A u \in DOMAIN workers[f] : workers[f][u].st = "done"

\* C20: within one pass over a file no download worker starts before the
\* URL set of the whole file is extracted, and the rewrite, the manifest
\* write and the JSON write start only after every worker of the file has
\* ended.
C20_PhasesInOrder == []C20_PhaseStates /\ [][C20_PhaseSteps]_vars

\* A file with two URLs in two elements was rewritten and written after
\* both workers ended, one of them after a failed attempt.
C20_Witness ==
    \E f \in Files :
      /\ pc[f] = "done"
      /\ Cardinality(DOMAIN workers[f]) >= 2
      /\ \E u \in DOMAIN workers[f] : workers[f][u].fails >= 1
      /\ data[f] # hist.json[f]
      /\ disk_json[f] = data[f]

\* ------------------------------------------------------------------------
\* C21
\* ------------------------------------------------------------------------

\* The local paths the URLs of f resolved to.
LocalPaths(f) == {SavedMap(f)[u] : u \in DOMAIN SavedMap(f)}

\* The names in lazy_attrs, as a set.
LazyNames == {lazy_attrs[i] : i \in 1..Len(lazy_attrs)}

\* The element carries a src, or a srcset candidate, that is a local path.
PointsAtLocal(f, tag) ==
    \/ TagGet(tag, "src") \in LocalPaths(f)
    \/ /\ Truthy(TagGet(tag, "srcset"))
       /\ \E k \in 1..Len(SrcsetParts(TagGet(tag, "srcset"))) :
             SplitWs(SrcsetParts(TagGet(tag, "srcset"))[k])[1] \in LocalPaths(f)

\* C21: in a rewritten file, every <img> from which the rewrite took
\* lazy-loading attributes away carries a src or a srcset candidate that
\* is the local path of a downloaded image.
C21_StrippedKeepsReference ==
    \A f \in Files : Rewritten(f) =>
      \A p \in ImgPairs(f) :
        (DOMAIN p.before.attrs \cap LazyNames) \ DOMAIN p.after.attrs # {}
          => PointsAtLocal(f, p.after)

\* ------------------------------------------------------------------------
\* C22
\* ------------------------------------------------------------------------

RECURSIVE Blank(_)
\* The document with every string that holds an <img marker blanked: what
\* is left is its shape and every node that is not a hit.
Blank(doc) ==
    IF doc.t = "obj"
    THEN [doc EXCEPT !.v = [i \in 1..Len(doc.v) |->
                               [doc.v[i] EXCEPT !.val = Blank(doc.v[i].val)]]]
    ELSE IF doc.t = "arr"
    THEN [doc EXCEPT !.v = [i \in 1..Len(doc.v) |-> Blank(doc.v[i])]]
    ELSE IF doc.t = "str" /\ ContainsImgMarker(doc.v)
    THEN [doc EXCEPT !.v = <<>>]
    ELSE doc

\* C22: for every document, writing the rewritten hits back completes
\* without error (a file whose downloads all ended, with no directory or
\* file operation failing, does not fail), every hit's path then holds the
\* rewritten string, and every other node and the shape of the document
\* are as before.
C22_WriteBackInPlace ==
    \A f \in Files :
      /\ (pc[f] = "failed" /\ hist.json[f].t # "invalid" /\ workers[f] # <<>>
            /\ GatherDone(f)) => fault_seen
      /\ pc[f] = "done" =>
            /\ Blank(data[f]) = Blank(hist.json[f])
            /\ \A i \in 1..Len(HitsOf(f)) :
                  GetByPath(data[f], HitsOf(f)[i].path) =
                     [t |-> "str", v |-> RewriteHtml(HitsOf(f)[i].html, SavedMap(f))]

\* ------------------------------------------------------------------------
\* C23
\* ------------------------------------------------------------------------

\* The string holds the characters <img in some letter case.
MarkedAnyCase(html) ==
    \E i \in 1..Len(html) : html[i].name \in {"<img", "<IMG", "<imgx", "<IMGX"}

RECURSIVE Sum(_)
Sum(ns) == IF ns = <<>> THEN 0 ELSE ns[1] + Sum(Tail(ns))

RECURSIVE CountMarked(_)
\* How many string values of the document hold <img in some letter case.
CountMarked(doc) ==
    IF doc.t = "obj" THEN Sum([i \in 1..Len(doc.v) |-> CountMarked(doc.v[i].val)])
    ELSE IF doc.t = "arr" THEN Sum([i \in 1..Len(doc.v) |-> CountMarked(doc.v[i])])
    ELSE IF doc.t = "str" /\ MarkedAnyCase(doc.v) THEN 1
    ELSE 0

\* C23: the hits of a document are exactly its string values that hold
\* <img in any letter case: following a hit's path from the root gives the
\* hit's string, no path is recorded twice, there are as many hits as such
\* strings, and the document loaded is as it was read once the scan is
\* over.
C23_ScanExact ==
    \A f \in Files : hist.json[f].t # "invalid" =>
      LET doc == hist.json[f]
          hits == walk_and_collect_html(doc, <<>>)
      IN  /\ \A i \in 1..Len(hits) :
                /\ GetByPath(doc, hits[i].path) = [t |-> "str", v |-> hits[i].html]
                /\ MarkedAnyCase(hits[i].html)
          /\ \A i, j \in 1..Len(hits) : hits[i].path = hits[j].path => i = j
          /\ Len(hits) = CountMarked(doc)
          /\ pc[f] = "downloading" => data[f] = doc

\* A scanned document with an upper-case <IMG hit, a second hit and a
\* string that is no hit.
C23_Witness ==
    \E f \in Files :
      /\ pc[f] = "downloading"
      /\ LET hits == HitsOf(f) IN
            /\ Len(hits) >= 2
            /\ \E i \in 1..Len(hits) : \E k \in 1..Len(hits[i].html) :
                  hits[i].html[k].name = "<IMG"
            /\ \E i \in 1..Len(hits) : Len(hits[i].path) >= 2
      /\ hist.json[f] # Blank(hist.json[f])
      /\ \E i \in 1..Len(hist.json[f].v) :
            hist.json[f].v[i].val.t = "arr"
            /\ \E k \in 1..Len(hist.json[f].v[i].val.v) :
                  /\ hist.json[f].v[i].val.v[k].t = "str"
                  /\ ~MarkedAnyCase(hist.json[f].v[i].val.v[k].v)

\* ------------------------------------------------------------------------
\* C24
\* ------------------------------------------------------------------------

\* The reference is written as http://... or https://...
HttpScheme(u) == Len(u) >= 2 /\ u[1] \in {"http:", "https:"} /\ u[2] = "//"

\* The references of f that stay something else than an http(s) URL once
\* a leading // got its scheme.
SkippedRefs(f) ==
    LET refs == RefsOfHits(HitsOf(f)) IN
    { refs[i].url : i \in { j \in 1..Len(refs) :
                               ~HttpScheme(IF StartsWith(refs[j].url, <<"//">>)
                                           THEN <<"https:">> \o refs[j].url
                                           ELSE refs[j].url) } }

\* C24: a reference that is no http(s) URL after the // normalisation
\* gets no destination, no worker and so no request, no outcome, and no
\* key in mappings or failed; a file does not fail for having only such
\* references.
C24_NonHttpSkipped ==
    \A f \in Files :
      /\ \A u \in DOMAIN url_to_dest[f] \cup DOMAIN workers[f]
                  \cup KeySet(out[f])
                  \cup KeySet(disk_manifest[f].mappings)
                  \cup KeySet(disk_manifest[f].failed) : HttpScheme(u)
      /\ hist.json[f].t # "invalid" =>
            \A r \in SkippedRefs(f) :
              r \notin DOMAIN url_to_dest[f] \cup DOMAIN workers[f] \cup KeySet(out[f])
      /\ (hist.json[f].t # "invalid" /\ HitsOf(f) # <<>>
            /\ \A i \in 1..Len(RefsOfHits(HitsOf(f))) :
                  RefsOfHits(HitsOf(f))[i].url \in SkippedRefs(f)
            /\ pc[f] \in Terminal /\ ~fault_seen)
           => pc[f] = "no_urls"

\* A file with a relative reference and a data: URI next to a downloaded
\* URL has its manifest.
C24_Witness ==
    \E f \in Files :
      /\ pc[f] = "done"
      /\ ~args.dry_run
      /\ Cardinality(SkippedRefs(f)) >= 2
      /\ disk_manifest[f].mappings # <<>>

\* ------------------------------------------------------------------------
\* C25
\* ------------------------------------------------------------------------

\* The workers of the current call that wrote an asset file, each with the
\* path it wrote.
Writers ==
    UNION { { [file |-> f, url |-> out[f][i].url, path |-> out[f][i].value] :
                i \in { j \in 1..Len(out[f]) : out[f][j].url \in SavedNow(f) } } :
            f \in Files }

\* C25: no two download workers, of one file or of two files, write to
\* the same destination path.
C25_NoSharedDestination ==
    \A w1, w2 \in Writers :
      <<w1.file, w1.url>> # <<w2.file, w2.url>> => w1.path # w2.path

\* ------------------------------------------------------------------------
\* C26
\* ------------------------------------------------------------------------

\* C26: when every GET ends, every call of main_async returns, every file
\* having reached the end of its pipeline (written, skipped or failed);
\* no worker waits for a semaphore for ever.
C26_Terminates ==
    /\ (main_pc = "running") ~> (main_pc = "returned")
    /\ [](main_pc = "returned" => \A f \in Files : pc[f] \in Terminal)
    /\ \A f \in Files : (pc[f] = "downloading") ~> (pc[f] \in {"done", "failed"})

\* main_async returned from a call in which every URL of a file failed
\* all its attempts, more workers having been created than the semaphore
\* lets through at once.
C26_Witness ==
    /\ main_pc = "returned"
    /\ \E f \in Files :
          /\ pc[f] = "done"
          /\ Cardinality(DOMAIN workers[f]) > args.download_concurrency
          /\ \A u \in DOMAIN workers[f] :
                workers[f][u].why = "exhausted" /\ workers[f][u].fails = args.retries + 1

\* ------------------------------------------------------------------------
\* C27
\* ------------------------------------------------------------------------

\* The image references of a document that are paths below assets/: the
\* references an earlier rewrite substituted.
LocalRefs(doc) ==
    LET refs == RefsOfHits(walk_and_collect_html(doc, <<>>)) IN
    { refs[i].url : i \in { j \in 1..Len(refs) : StartsWith(refs[j].url, <<"assets", "/">>) } }

\* The values of the mappings of f's manifest on disk.
MappedPaths(f) ==
    {disk_manifest[f].mappings[i].value : i \in 1..Len(disk_manifest[f].mappings)}

\* C27: after completed passes that were no dry-runs, with no directory or
\* file operation having failed, every local asset path that stands in the
\* JSON file as an image reference is a value of mappings in the file's
\* manifest.
C27_ManifestCoversJson ==
    \A f \in Files :
      (main_pc = "returned" /\ ~fault_seen /\ disk_json[f].t # "invalid"
        /\ pc[f] \in {"done", "no_urls"} /\ ~args.dry_run /\ ~hist.dry_run)
      => LocalRefs(disk_json[f]) \subseteq MappedPaths(f)

\* ------------------------------------------------------------------------
\* C28
\* ------------------------------------------------------------------------

\* The document f held when the call began has hits and no reference that
\* is an http(s) URL.
HitsButNoUrl(f) ==
    /\ hist.json[f].t # "invalid"
    /\ HitsOf(f) # <<>>
    /\ \A i \in 1..Len(RefsOfHits(HitsOf(f))) :
          RefsOfHits(HitsOf(f))[i].url \in SkippedRefs(f)

\* C28: a pass over a file with hits and no downloadable URL creates no
\* download worker, leaves the manifest on disk as it is and leaves the
\* JSON file as it is.
C28_NoUrlNoWrite ==
    \A f \in Files : HitsButNoUrl(f) =>
      /\ workers[f] = <<>>
      /\ out[f] = <<>>
      /\ pc[f] \in {"queued", "no_urls", "failed"}
      /\ disk_manifest[f] = hist.manifest[f]
      /\ disk_json[f] = hist.json[f]

\* The second run passed over a file the first run had rewritten: its
\* references are local paths, and the manifest of the first run stands.
C28_Witness ==
    \E f \in Files :
      /\ hist.run >= 2
      /\ HitsButNoUrl(f)
      /\ pc[f] = "no_urls"
      /\ LocalRefs(disk_json[f]) # {}
      /\ disk_manifest[f].mappings # <<>>

\* ------------------------------------------------------------------------
\* C29
\* ------------------------------------------------------------------------

\* The reference url resolved to a local path in the pass over f: it is
\* non-empty and url_map has it, as written or with its scheme added.
Resolves(f, url) ==
    /\ Truthy(url)
    /\ {url, IF StartsWith(url, <<"//">>) THEN <<"https:">> \o url ELSE url}
         \cap DOMAIN SavedMap(f) # {}

\* No reference of the element resolved.
NoneResolved(f, tag) ==
    LET refs == extract_image_urls_from_tag(tag) IN
    \A i \in 1..Len(refs) : ~Resolves(f, refs[i].url)

\* C29: an <img> none of whose references resolved to a local path has,
\* after the rewrite, the attributes it had before, the lazy-loading ones
\* included.
C29_UnresolvedUntouched ==
    \A f \in Files : Rewritten(f) =>
      \A p \in ImgPairs(f) :
        NoneResolved(f, p.before) => p.after.attrs = p.before.attrs

\* A rewritten file with an <img> whose only reference failed and which
\* carries data-src and loading, before and after.
C29_Witness ==
    \E f \in Files :
      /\ Rewritten(f)
      /\ \E p \in ImgPairs(f) :
            /\ NoneResolved(f, p.before)
            /\ extract_image_urls_from_tag(p.before) # <<>>
            /\ {"data-src", "loading"} \subseteq DOMAIN p.before.attrs
            /\ {"data-src", "loading"} \subseteq DOMAIN p.after.attrs

\* ------------------------------------------------------------------------
\* C30
\* ------------------------------------------------------------------------

\* In the step, worker u of f issues a GET or writes its asset file.
WorkerActs(f, u) ==
    /\ u \in DOMAIN workers'[f]
    /\ \/ workers'[f][u].gets > workers[f][u].gets
       \/ workers'[f][u].why = "saved" /\ workers[f][u].why # "saved"

C30_QuietStep ==
    \A f \in Files : pc[f] \in Terminal =>
      \A u \in DOMAIN workers[f] : ~WorkerActs(f, u)

\* C30: once the pipeline of a file has ended (file_worker has released
\* its slot), no step is a download worker of that file issuing a request
\* or writing an asset file.
C30_NoWorkerAfterEnd == [][C30_QuietStep]_vars

====
